---- MODULE Spec2Model ----
(***************************************************************************)
(* Model of the chunking-and-aggregation analysis pipeline of              *)
(* gemini-claude-code-mcp:                                                 *)
(*   utils/chunking.py                 token estimator, boundary finder,   *)
(*                                     smart_chunk_content                 *)
(*   services/gemini.py                rate limiter and retrying gateway   *)
(*   services/large_context_analyzer.py  analyze, result cache             *)
(*                                                                         *)
(* Three specifications share the variables:                               *)
(*   SpecChunker  applies the pure chunking functions to bounded inputs    *)
(*   SpecGateway  concurrent gateway calls against the rate limiter        *)
(*   Spec         concurrent analyze calls against one analyzer            *)
(***************************************************************************)
EXTENDS Integers, Sequences, FiniteSets, TLC

(***************************************************************************)
(* Bounds of the model.                                                    *)
(***************************************************************************)
MaxLen == 5            \* longest content, in symbols
MaxChunkSize == 3      \* largest chunk budget tried by the chunker
MaxOverlap == 2        \* largest overlap budget tried by the chunker

(***************************************************************************)
(* Text.  A text is a sequence of symbols.  "x" is an ordinary word, "d" a *)
(* declaration header matched by the python patterns when it starts a line *)
(* (class/def/async def), "f" a header matched by the javascript patterns  *)
(* (function/const/class/export), NL the newline character.                *)
(***************************************************************************)
NL == "\n"
Symbols == {"x", "d", "f", NL}

Max(a, b) == IF a >= b THEN a ELSE b

Min(a, b) == IF a <= b THEN a ELSE b

Texts(n) == UNION {[1..k -> Symbols] : k \in 0..n}

\* str.split('\n'): the lines of a text; never empty
RECURSIVE Split(_)
Split(s) ==
    IF \A i \in 1..Len(s) : s[i] # NL
    THEN <<s>>
    ELSE LET k == CHOOSE i \in 1..Len(s) :
                      s[i] = NL /\ \A j \in 1..(i - 1) : s[j] # NL
         IN  <<SubSeq(s, 1, k - 1)>> \o Split(SubSeq(s, k + 1, Len(s)))

\* '\n'.join(lines)
RECURSIVE Join(_)
Join(ls) ==
    IF ls = <<>> THEN <<>>
    ELSE IF Len(ls) = 1 THEN ls[1]
    ELSE ls[1] \o <<NL>> \o Join(Tail(ls))

\* lines[a:b] of python, 0-based, end exclusive
Slice(ls, a, b) == SubSeq(ls, a + 1, Min(b, Len(ls)))

\* count_tokens: every word or header is one token and, as in cl100k_base,
\* a maximal run of newlines is one token (so counts are not additive
\* over concatenation)
CountTokens(s) ==
    Cardinality({i \in 1..Len(s) : s[i] # NL \/ i = 1 \/ s[i - 1] # NL})

(***************************************************************************)
(* Boundary finder.                                                        *)
(***************************************************************************)
Extensions == {".py", ".js", ".txt"}

\* get_language_from_extension
GetLanguageFromExtension(ext) ==
    IF ext = ".py" THEN "python"
    ELSE IF ext = ".js" THEN "javascript"
    ELSE "text"

\* patterns for the supported languages only, none for any other tag
LangPatternsNone(language) ==
    IF language = "javascript" THEN {"f"}
    ELSE IF language = "python" THEN {"d"} ELSE {}

\* patterns.get(language.lower(), patterns.get('python', [])): the header
\* symbols the patterns of the language match at the start of a line
LangPatterns(language) ==
    IF language = "javascript" THEN {"f"} ELSE {"d"}

\* offsets (0-based) of the line starts of a text
LineStarts(s) == {0} \cup {i \in 1..Len(s) : s[i] = NL}

\* content[:off].count('\n')
LineOf(s, off) == Cardinality({i \in 1..off : s[i] = NL})

RECURSIVE SortedSeq(_)
SortedSeq(S) ==
    IF S = {} THEN <<>>
    ELSE LET m == CHOOSE a \in S : \A b \in S : a <= b
         IN  <<m>> \o SortedSeq(S \ {m})

\* find_code_boundaries: (line_num, match.start()) of every match, sorted
\* by line number
FindCodeBoundaries(s, language) ==
    LET offs == {o \in LineStarts(s) :
                    o + 1 <= Len(s) /\ s[o + 1] \in LangPatterns(language)}
        sorted == SortedSeq(offs)
    IN  [k \in 1..Len(sorted) |-> <<LineOf(s, sorted[k]), sorted[k]>>]

(***************************************************************************)
(* Chunker.                                                                *)
(***************************************************************************)
\* a chunk whose lines are numbered from 1
ChunkOneBased(text, s, e) == [text |-> text, start_line |-> s + 1, end_line |-> e + 1]

\* the tuple (chunk_text, start_line, end_line)
Chunk(text, s, e) == [text |-> text, start_line |-> s, end_line |-> e]

\* a cut at the first boundary after the chunk start that fits
BestBoundaryFirst(lines, boundaries, start, i, size) ==
    LET ok == {k \in 1..Len(boundaries) :
                  /\ start < boundaries[k][1]
                  /\ boundaries[k][1] <= i
                  /\ CountTokens(Join(Slice(lines, start, boundaries[k][1]))) <= size}
    IN  IF ok = {} THEN i
        ELSE boundaries[CHOOSE k \in ok : \A j \in ok : k <= j][1]

\* smart_chunk_content, lines 143-151: the cut point
BestBoundary(lines, boundaries, start, i, size) ==
    LET ok == {k \in 1..Len(boundaries) :
                  /\ start < boundaries[k][1]
                  /\ boundaries[k][1] <= i
                  /\ CountTokens(Join(Slice(lines, start, boundaries[k][1]))) <= size}
    IN  IF ok = {} THEN i
        ELSE boundaries[CHOOSE k \in ok : \A j \in ok : j <= k][1]

\* a chunker that restarts after the cut instead of stepping back
OverlapStartSkipping(chunk_end, overlap, line_tokens) == chunk_end + 2

\* a chunker that takes the overlap budget for a number of lines
OverlapStartByLines(chunk_end, overlap, line_tokens) == Max(0, chunk_end - overlap)

\* smart_chunk_content, line 159
OverlapStart(chunk_end, overlap, line_tokens) ==
    Max(0, chunk_end - (overlap \div (IF line_tokens = 0 THEN 1 ELSE line_tokens)))

\* smart_chunk_content, lines 137-165: one iteration of the loop.  st is
\* the loop state, i the 0-based index of the line
ChunkStep(st, lines, boundaries, i, size, overlap) ==
    LET line == lines[i + 1]
        line_tokens == CountTokens(line \o <<NL>>)
    IN  IF st.tokens + line_tokens > size /\ st.cur # <<>>
        THEN LET best == BestBoundary(lines, boundaries, st.start, i, size)
                 chunk_end == best - 1
                 text == Join(Slice(st.cur, 0, chunk_end - st.start + 1))
                 ostart == OverlapStart(chunk_end, overlap, line_tokens)
                 cur == Slice(lines, ostart, i + 1)
             IN  [chunks |-> Append(st.chunks, Chunk(text, st.start, chunk_end)),
                  start |-> ostart,
                  cur |-> cur,
                  tokens |-> CountTokens(Join(cur)),
                  cuts |-> Append(st.cuts, [start |-> st.start, line |-> i,
                                            end |-> chunk_end, next_start |-> ostart,
                                            line_tokens |-> line_tokens,
                                            held |-> cur])]
        ELSE [st EXCEPT !.cur = Append(st.cur, line),
                        !.tokens = st.tokens + line_tokens]

RECURSIVE ChunkLoop(_, _, _, _, _, _)
ChunkLoop(st, lines, boundaries, i, size, overlap) ==
    IF i >= Len(lines) THEN st
    ELSE ChunkLoop(ChunkStep(st, lines, boundaries, i, size, overlap),
                   lines, boundaries, i + 1, size, overlap)

\* smart_chunk_content, lines 128-165: the loop state after the last line;
\* cuts is the history of the cuts made (the chunk start, the overflowing
\* line, the end of the chunk emitted, the start of the next chunk and the
\* lines it holds at first)
SmartChunkLoop(s, ext, size, overlap) ==
    LET lines == Split(s)
        found == FindCodeBoundaries(s, GetLanguageFromExtension(ext))
        st0 == [chunks |-> <<>>, start |-> 0, cur |-> <<>>, tokens |-> 0,
                cuts |-> <<>>]
    IN  ChunkLoop(st0, lines, found, 0, size, overlap)

\* smart_chunk_content
SmartChunkContent(s, ext, size, overlap) ==
    IF CountTokens(s) <= size
    THEN <<Chunk(s, 0, Len(Split(s)) - 1)>>
    ELSE LET st == SmartChunkLoop(s, ext, size, overlap)
         IN  IF st.cur # <<>>
             THEN Append(st.chunks, Chunk(Join(st.cur), st.start, Len(Split(s)) - 1))
             ELSE st.chunks

\* the cuts smart_chunk_content makes
SmartChunkCuts(s, ext, size, overlap) ==
    IF CountTokens(s) <= size THEN <<>>
    ELSE SmartChunkLoop(s, ext, size, overlap).cuts

\* _simple_chunk_by_size, lines 99-110: one iteration of the loop
SimpleStep(st, lines, i, limit) ==
    LET line == lines[i + 1]
        line_tokens == CountTokens(line \o <<NL>>)
    IN  IF st.tokens + line_tokens > limit /\ st.cur # <<>>
        THEN [chunks |-> Append(st.chunks, Chunk(Join(st.cur), st.start, i - 1)),
              start |-> i,
              cur |-> <<line>>,
              tokens |-> line_tokens]
        ELSE [st EXCEPT !.cur = Append(st.cur, line),
                        !.tokens = st.tokens + line_tokens]

RECURSIVE SimpleLoop(_, _, _, _)
SimpleLoop(st, lines, i, limit) ==
    IF i >= Len(lines) THEN st
    ELSE SimpleLoop(SimpleStep(st, lines, i, limit), lines, i + 1, limit)

\* a splitter that restarts every chunk at the last line of the one before
SimpleChunkOverlapping(s, limit) == SmartChunkContent(s, ".txt", limit, 0)

\* _simple_chunk_by_size
SimpleChunkBySize(s, limit) ==
    LET lines == Split(s)
        st0 == [chunks |-> <<>>, start |-> 0, cur |-> <<>>, tokens |-> 0]
        st == SimpleLoop(st0, lines, 0, limit)
    IN  IF st.cur # <<>>
        THEN Append(st.chunks, Chunk(Join(st.cur), st.start, Len(lines) - 1))
        ELSE st.chunks


(***************************************************************************)
(* Inference gateway: rate limiter and retry policy (services/gemini.py).  *)
(***************************************************************************)
NTasks == 2             \* concurrent gateway calls
MaxTime == 2            \* the clock stops here
StreamLen == 2          \* fragments of one remote response stream
RateLimitRequests == 2  \* settings.rate_limit_requests, scaled down
RateLimitWindow == 2    \* settings.rate_limit_window, scaled down

MaxRetries == 3         \* max_retries
InitialRetryDelay == 1  \* initial_retry_delay

Tasks == 1..NTasks
NoTask == 0

RECURSIVE Pow2(_)
Pow2(n) == IF n = 0 THEN 1 ELSE 2 * Pow2(n - 1)

NoSleep == [base |-> 0, jitter |-> FALSE]

\* check_rate_limit, line 55: wait_time
WaitTime(elapsed) == RateLimitWindow - elapsed

\* a lock that lets every task in
LockFreeAlways(holder, queue) == TRUE

\* asyncio.Lock.acquire: the lock is taken at once if it is not held and
\* no task is waiting for it
LockFree(holder, queue) == holder = NoTask /\ queue = <<>>

\* a rate limiter that never finds the limit reached
LimitReachedNever(request_count) == FALSE

\* a limiter that blocks one call later
LimitReachedLate(request_count) == request_count > RateLimitRequests

\* check_rate_limit, line 53: the limit is reached
LimitReached(request_count) == request_count >= RateLimitRequests

\* a gateway that retries client errors like any other exception
IsClientErrorNever(e) == FALSE

\* gemini_text_to_text, line 117: except ClientError
IsClientError(e) == e = "client"

\* a retry loop that runs one attempt more
AttemptsLeftOneMore(attempt) == attempt < MaxRetries + 1

\* gemini_text_to_text, line 87: for attempt in range(max_retries)
AttemptsLeft(attempt) == attempt < MaxRetries

\* gemini_text_to_text, lines 104-126: the backoff sleep after error e on
\* attempt k, NoSleep when the handler does not sleep
BackoffOf(e, k) ==
    IF e = "rate"
    THEN [base |-> InitialRetryDelay * Pow2(k), jitter |-> TRUE]
    ELSE IF e = "server" /\ k < MaxRetries - 1
    THEN [base |-> InitialRetryDelay * Pow2(k), jitter |-> FALSE]
    ELSE IF e # "server" /\ k < MaxRetries - 1
    THEN [base |-> InitialRetryDelay, jitter |-> FALSE]
    ELSE NoSleep

(***************************************************************************)
(* Analyzer and result cache (services/large_context_analyzer.py).         *)
(***************************************************************************)
NCallers == 2           \* concurrent callers of analyze
MaxCalls == 3           \* analyze calls in one behaviour
ClaudeMaxTokens == 2    \* settings.context_limits.claude_max_tokens, scaled down
GeminiMaxTokens == 5    \* settings.context_limits.gemini_max_tokens, scaled down
PromptReserve == 1      \* the 1000 tokens left for prompts, scaled down
ProcessingOverlap == 1  \* settings.processing.overlap, scaled down
CacheMaxSize == 2       \* settings.cache_max_size, scaled down
CacheTtlSeconds == 1    \* settings.cache_ttl_seconds, scaled down

Callers == 1..NCallers

\* a response: None, or a text and the part numbers of the findings it
\* was made from
Response(text, parts) == [text |-> text, parts |-> parts]

None == Response("None", <<>>)

NoResponse == Response("No response from Gemini", <<>>)

\* the requests made of the analyzer: contents of 1 and 2 tokens (within
\* the small-context limit), of 3 tokens (one chunk, simple strategy) and
\* of 5 tokens (two chunks, code-aware strategy)
Request(q, s, strategy, ext) ==
    [query |-> q, content |-> s, chunking_strategy |-> strategy, filename |-> ext]

Requests ==
    {Request("q", <<"x">>, "code_aware", ".py"),
     Request("q", <<"x", "x">>, "code_aware", ".py"),
     Request("q", <<"x", NL, "x">>, "simple", ".txt"),
     Request("q", <<"x", "x", "x", NL, "d">>, "code_aware", ".py")}

\* _generate_cache_key: the hashes are taken to be injective
NoRequest == Request("", <<>>, "", "")

GenerateCacheKey(r) == <<r.query, r.content, r.chunking_strategy>>

\* an analyzer that sends content of exactly the limit to the large model
NeedsLargeFromLimit(s) == CountTokens(s) >= ClaudeMaxTokens

\* needs_large_context_processing
NeedsLargeContextProcessing(s) == CountTokens(s) > ClaudeMaxTokens

\* analyze, lines 65-75: the chunks of the request
ChunksOf(r) ==
    IF r.chunking_strategy = "code_aware"
    THEN SmartChunkContent(r.content, r.filename,
                           GeminiMaxTokens - PromptReserve, ProcessingOverlap)
    ELSE SimpleChunkBySize(r.content, GeminiMaxTokens - PromptReserve)

AnalysisResult(r, chunks_processed, used_gemini, response) ==
    [query |-> r.query, content |-> r.content,
     total_tokens |-> CountTokens(r.content),
     chunks_processed |-> chunks_processed,
     used_gemini |-> used_gemini, response |-> response]

NoResult ==
    [query |-> "", content |-> <<>>, total_tokens |-> 0, chunks_processed |-> 0,
     used_gemini |-> FALSE, response |-> None]

\* the cache: the links of the TTLCache, least recently used first
Link(key, value, t) ==
    [key |-> key, value |-> value, expires |-> t + CacheTtlSeconds, stored |-> t]

\* a cache whose entries never expire
ExpiredNever(link, t) == FALSE

\* TTLCache: not (timer() < link.expires)
Expired(link, t) == ~(t < link.expires)

HasLink(cache, key) == \E i \in 1..Len(cache) : cache[i].key = key

LinkOf(cache, key) == cache[CHOOSE i \in 1..Len(cache) : cache[i].key = key]

Without(cache, key) == SelectSeq(cache, LAMBDA l : l.key # key)

\* a cache that is never found to hold a key
CacheContainsNever(cache, key, t) == FALSE

\* TTLCache.__contains__: key in self.cache
CacheContains(cache, key, t) ==
    HasLink(cache, key) /\ ~Expired(LinkOf(cache, key), t)

\* TTLCache.__getitem__, the link: it becomes the most recently used
CacheTouch(cache, key) ==
    IF HasLink(cache, key)
    THEN Append(Without(cache, key), LinkOf(cache, key))
    ELSE cache

\* TTLCache.expire
CacheExpire(cache, t) == SelectSeq(cache, LAMBDA l : ~Expired(l, t))

\* a cache that never makes room
CacheEvictNone(cache) == cache

\* Cache.__setitem__: popitem() until the new key fits
RECURSIVE CacheEvict(_)
CacheEvict(cache) ==
    IF Len(cache) + 1 > CacheMaxSize /\ cache # <<>>
    THEN CacheEvict(Tail(cache))
    ELSE cache

\* TTLCache.__setitem__: self.cache[key] = value
CachePut(cache, key, value, t) ==
    LET live == CacheExpire(cache, t)
        room == IF HasLink(live, key) THEN live ELSE CacheEvict(live)
    IN  Append(Without(room, key), Link(key, value, t))

\* the keys of unexpired entries that self.cache[key] = value removes
Evicted(cache, key, value, t) ==
    LET live == CacheExpire(cache, t)
        after == CachePut(cache, key, value, t)
    IN  {live[i].key : i \in 1..Len(live)} \ {after[i].key : i \in 1..Len(after)}

\* an aggregation that labels every chunk, answered or not
FindingsOfAll(outcomes) == [k \in 1..Len(outcomes) |-> k]

\* an aggregation that numbers the findings after dropping the empty ones
FindingsOfRenumbered(outcomes) ==
    [i \in 1..Cardinality({k \in 1..Len(outcomes) : outcomes[k] = "text"}) |-> i]

\* _process_chunks_with_gemini, line 158: the part numbers of the findings,
\* those of the chunks whose response is not empty
RECURSIVE FindingsOf(_)
FindingsOf(outcomes) ==
    IF outcomes = <<>> THEN <<>>
    ELSE LET n == Len(outcomes)
             front == FindingsOf(SubSeq(outcomes, 1, n - 1))
         IN  IF outcomes[n] = "text" THEN Append(front, n) ELSE front

\* a gather that never returns
AllDoneNever(tasks) == FALSE

\* a gather that returns as soon as one call has ended
AllDoneAny(tasks) == \E k \in 1..Len(tasks) : tasks[k] # "run"

\* asyncio.gather, line 155: every awaited call has ended
AllDone(tasks) == \A k \in 1..Len(tasks) : tasks[k] # "run"

\* a gateway call whose client error does not escape
PropagatesNever(outcome) == FALSE

\* the outcome of a gateway call that raises in the awaiting analyze
Propagates(outcome) == outcome = "client_error"

\* an analyzer that passes the absent response of the call on
ResponseOrAbsent(outcome, text) == IF outcome = "text" THEN text ELSE None

\* an analyzer that answers with the placeholder whatever the call returned
ResponseOrPlaceholder(outcome, text) == NoResponse

\* lines 137 and 169: result or 'No response from Gemini'
ResponseOr(outcome, text) == IF outcome = "text" THEN text ELSE NoResponse

VARIABLES
    content,            \* chunker input: the text
    filename,           \* chunker input: the extension of the file name
    chunk_size,         \* chunker input: the chunk budget
    overlap_size,       \* chunker input: the overlap budget
    chunks,             \* the chunks returned
    chunker,            \* "input", or the function that returned
    boundaries,         \* the language tag and the result of find_code_boundaries
    cuts,               \* history: the cuts made by smart_chunk_content
    now,                \* time.time()
    rate_limit_state,   \* request_count and window_start; history: the
                        \* calls admitted since window_start was last set
    lock,               \* holder of rate_limit_state['lock'], NoTask if free
    waiters,            \* tasks suspended in lock.acquire(), in arrival order
    gw,                 \* the gateway calls
    admitted,           \* history: calls let through by check_rate_limit at
                        \* each of the last RateLimitWindow clock values
    cache,              \* self.cache of the analyzer
    an,                 \* the callers of analyze
    detached,           \* gateway calls in flight whose analyze call is over
    ncalls,             \* analyze calls made so far
    eviction,           \* the eviction_policy setting; history: the uses of
                        \* the cache entries and the last eviction
    tool                \* the invocations of the summarize_project tool

chunkerVars == <<content, filename, chunk_size, overlap_size, chunks, chunker,
                 boundaries, cuts>>

gatewayVars == <<rate_limit_state, lock, waiters, gw, admitted>>

analyzerVars == <<cache, an, detached, ncalls>>

toolVars == <<tool>>

settingsVars == <<eviction>>

vars == <<chunkerVars, now, gatewayVars, analyzerVars, toolVars, settingsVars>>

(***************************************************************************)
(* Chunker calls.                                                          *)
(***************************************************************************)
\* the language tags given to find_code_boundaries: two supported ones,
\* and two that have no patterns
Languages == {"python", "javascript", "text", "go"}

Boundaries(language, found) == [language |-> language, found |-> found]

NoBoundaries == Boundaries("", <<>>)

ChunkerIdle ==
    /\ content = <<>>
    /\ filename = ".txt"
    /\ chunk_size = 1
    /\ overlap_size = 0
    /\ chunks = <<>>
    /\ chunker = "input"
    /\ boundaries = NoBoundaries
    /\ cuts = <<>>

\* a call of smart_chunk_content(content, filename, chunk_size, overlap_size)
CallSmartChunk ==
    /\ chunker = "input"
    /\ chunks' = SmartChunkContent(content, filename, chunk_size, overlap_size)
    /\ cuts' = SmartChunkCuts(content, filename, chunk_size, overlap_size)
    /\ boundaries' = Boundaries(GetLanguageFromExtension(filename),
                                FindCodeBoundaries(content, GetLanguageFromExtension(filename)))
    /\ chunker' = "smart"
    /\ UNCHANGED <<content, filename, chunk_size, overlap_size, now, toolVars, gatewayVars,
                   analyzerVars, settingsVars>>

\* a call of _simple_chunk_by_size(content) with chunk_limit = chunk_size
CallSimpleChunk ==
    /\ chunker = "input"
    /\ chunks' = SimpleChunkBySize(content, chunk_size)
    /\ chunker' = "simple"
    /\ UNCHANGED <<content, filename, chunk_size, overlap_size, boundaries, cuts,
                   now, toolVars, settingsVars, gatewayVars, analyzerVars>>

\* a call of find_code_boundaries(content, language)
CallFindCodeBoundaries(language) ==
    /\ chunker = "input"
    /\ boundaries' = Boundaries(language, FindCodeBoundaries(content, language))
    /\ chunker' = "boundaries"
    /\ UNCHANGED <<content, filename, chunk_size, overlap_size, chunks, cuts,
                   now, toolVars, settingsVars, gatewayVars, analyzerVars>>

(***************************************************************************)
(* Gateway calls.  pc of a call:                                           *)
(*   start       about to call check_rate_limit                            *)
(*   wait_lock   suspended in lock.acquire()                               *)
(*   rate_sleep  asleep inside check_rate_limit, holding the lock          *)
(*   remote      the remote call is in flight                              *)
(*   backoff     asleep between attempts                                   *)
(*   returned    the call returned (result), raised: it raised ClientError *)
(***************************************************************************)
NewCall(kind) ==
    [kind |-> kind, pc |-> "start", attempt |-> 0, request_count |-> 0,
     wake |-> 0, result |-> "none", calls |-> 0, sleeps |-> 0,
     error |-> "none", slept |-> NoSleep, frag |-> 0, delivered |-> <<>>]

\* admitted[1] counts the calls let through at the present clock value,
\* admitted[k] those k - 1 ticks ago
NoneAdmitted == [k \in 1..RateLimitWindow |-> 0]

Admit(a) == [a EXCEPT ![1] = @ + 1]

GatewayIdle ==
    /\ rate_limit_state = [request_count |-> 0, window_start |-> 0, since_start |-> 0]
    /\ lock = NoTask
    /\ waiters = <<>>
    /\ gw = [t \in Tasks |-> NewCall("single")]
    /\ admitted = NoneAdmitted

\* the clock advances
Tick ==
    /\ now < MaxTime
    /\ now' = now + 1
    /\ admitted' = [k \in 1..RateLimitWindow |->
                        IF k = 1 THEN 0 ELSE admitted[k - 1]]
    /\ UNCHANGED <<chunkerVars, toolVars, settingsVars, analyzerVars, rate_limit_state, lock, waiters, gw>>

\* check_rate_limit, lines 40-62, run by t once it holds the lock: up to
\* the sleep if the limit is reached, to the end otherwise
EnterRateLimit(t) ==
    LET elapsed == now - rate_limit_state.window_start
        st1 == IF elapsed >= RateLimitWindow
               THEN [request_count |-> 0, window_start |-> now, since_start |-> 0]
               ELSE rate_limit_state
        count == st1.request_count
    IN  IF LimitReached(count)
        THEN /\ rate_limit_state' = st1
             /\ lock' = t
             /\ gw' = [gw EXCEPT ![t].pc = "rate_sleep",
                                 ![t].request_count = count,
                                 ![t].wake = now + WaitTime(elapsed)]
             /\ UNCHANGED admitted
        ELSE /\ rate_limit_state' = [st1 EXCEPT !.request_count = count + 1,
                                                !.since_start = @ + 1]
             /\ lock' = NoTask
             /\ gw' = [gw EXCEPT ![t].pc = "remote",
                                 ![t].calls = @ + 1,
                                 ![t].frag = 0,
                                 ![t].error = "none",
                                 ![t].slept = NoSleep]
             /\ admitted' = Admit(admitted)

\* async with lock, the lock being free: t runs check_rate_limit at once
Acquire(t) ==
    /\ gw[t].pc = "start"
    /\ LockFree(lock, waiters)
    /\ EnterRateLimit(t)
    /\ UNCHANGED <<chunkerVars, toolVars, settingsVars, analyzerVars, now, waiters>>

\* async with lock, the lock being held or promised: t queues
Enqueue(t) ==
    /\ gw[t].pc = "start"
    /\ ~LockFree(lock, waiters)
    /\ waiters' = Append(waiters, t)
    /\ gw' = [gw EXCEPT ![t].pc = "wait_lock"]
    /\ UNCHANGED <<chunkerVars, toolVars, settingsVars, analyzerVars, now, rate_limit_state, lock, admitted>>

\* the lock was released and t is the first waiter
Granted(t) ==
    /\ gw[t].pc = "wait_lock"
    /\ lock = NoTask /\ waiters # <<>> /\ Head(waiters) = t
    /\ waiters' = Tail(waiters)
    /\ EnterRateLimit(t)
    /\ UNCHANGED <<chunkerVars, toolVars, settingsVars, analyzerVars, now>>

\* check_rate_limit, lines 57-62: the sleep is over
RateWake(t) ==
    /\ gw[t].pc = "rate_sleep"
    /\ now >= gw[t].wake
    /\ rate_limit_state' = [request_count |-> gw[t].request_count + 1,
                            window_start |-> now, since_start |-> 1]
    /\ lock' = NoTask
    /\ gw' = [gw EXCEPT ![t].pc = "remote", ![t].calls = @ + 1, ![t].frag = 0,
                        ![t].request_count = 0, ![t].wake = 0,
                        ![t].error = "none", ![t].slept = NoSleep]
    /\ admitted' = Admit(admitted)
    /\ UNCHANGED <<chunkerVars, toolVars, settingsVars, analyzerVars, now, waiters>>

\* the for loop goes to its next attempt, or ends and the call returns None
NextAttempt(c) ==
    IF AttemptsLeft(c.attempt + 1)
    THEN [c EXCEPT !.attempt = @ + 1, !.pc = "start",
                   !.error = "none", !.slept = NoSleep]
    ELSE [c EXCEPT !.attempt = @ + 1, !.pc = "returned", !.result = "absent"]

\* gemini_text_to_text, lines 94-102: the remote call returns a response
\* whose text is a string or None
RemoteReturn(t, has_text) ==
    /\ gw[t].pc = "remote" /\ gw[t].kind = "single"
    /\ gw' = [gw EXCEPT ![t].pc = "returned",
                        ![t].result = IF has_text THEN "text" ELSE "absent"]
    /\ UNCHANGED <<chunkerVars, toolVars, settingsVars, analyzerVars, now, rate_limit_state, lock, waiters, admitted>>

\* gemini_text_to_text_stream, lines 163-170: the stream produces a
\* fragment, yielded to the consumer if it has text
StreamFragment(t, has_text) ==
    /\ gw[t].pc = "remote" /\ gw[t].kind = "stream"
    /\ gw[t].frag < StreamLen
    /\ gw' = [gw EXCEPT ![t].frag = @ + 1,
                        ![t].delivered = IF has_text
                                         THEN Append(@, gw[t].frag + 1)
                                         ELSE @]
    /\ UNCHANGED <<chunkerVars, toolVars, settingsVars, analyzerVars, now, rate_limit_state, lock, waiters, admitted>>

\* gemini_text_to_text_stream, lines 172-173: the stream ends
StreamEnd(t) ==
    /\ gw[t].pc = "remote" /\ gw[t].kind = "stream"
    /\ gw' = [gw EXCEPT ![t].pc = "returned", ![t].result = "end"]
    /\ UNCHANGED <<chunkerVars, toolVars, settingsVars, analyzerVars, now, rate_limit_state, lock, waiters, admitted>>

\* lines 104-126 and 175-195: the remote call (or the stream) fails with
\* e: a ServerError not about rates ("server"), a ServerError about rates
\* ("rate"), a ClientError ("client"), any other exception ("other")
RemoteError(t, e) ==
    /\ gw[t].pc = "remote"
    /\ LET c == [gw[t] EXCEPT !.error = e]
           b == BackoffOf(e, c.attempt)
       IN  gw' = [gw EXCEPT ![t] =
                    IF e \notin {"server", "rate"} /\ IsClientError(e)
                    THEN [c EXCEPT !.pc = "raised"]
                    ELSE IF b # NoSleep
                    THEN [c EXCEPT !.pc = "backoff", !.slept = b,
                                   !.sleeps = @ + 1]
                    ELSE NextAttempt(c)]
    /\ UNCHANGED <<chunkerVars, toolVars, settingsVars, analyzerVars, now, rate_limit_state, lock, waiters, admitted>>

\* the backoff sleep is over
BackoffWake(t) ==
    /\ gw[t].pc = "backoff"
    /\ gw' = [gw EXCEPT ![t] = NextAttempt(gw[t])]
    /\ UNCHANGED <<chunkerVars, toolVars, settingsVars, analyzerVars, now, rate_limit_state, lock, waiters, admitted>>


(***************************************************************************)
(* Analyze calls.  pc of a caller:                                         *)
(*   idle      no call made yet                                            *)
(*   single    awaiting the gateway call of the only chunk                 *)
(*   gather    awaiting asyncio.gather of the per-chunk gateway calls      *)
(*   synth     awaiting the synthesis gateway call                         *)
(*   returned  analyze returned result, raised: analyze raised exc         *)
(* A gateway call awaited by analyze is "run" while in flight and ends as  *)
(* "text" (a non-empty text), "absent" (None or an empty text) or          *)
(* "client_error" (it raised ClientError).                                 *)
(***************************************************************************)
NewCaller ==
    [pc |-> "idle", req |-> NoRequest, result |-> NoResult, exc |-> "none",
     hit |-> FALSE, expected |-> NoResult, stale |-> FALSE, gw_calls |-> 0,
     n |-> 0, tasks |-> <<>>, findings |-> <<>>, synth_calls |-> 0,
     call |-> "none", writes |-> 0, evicted |-> 0, order |-> <<>>]

AnalyzerIdle ==
    /\ cache = <<>>
    /\ an = [c \in Callers |-> NewCaller]
    /\ detached = 0
    /\ ncalls = 0

Outcomes == {"text", "absent", "client_error"}

\* analyze, lines 38-43: the lookup finds the key and reads the entry at
\* time t
Lookup(c, r, key, t) ==
    IF ~Expired(LinkOf(cache, key), t)
    THEN [NewCaller EXCEPT !.pc = "returned", !.req = r, !.hit = TRUE,
                           !.result = LinkOf(cache, key).value]
    ELSE [NewCaller EXCEPT !.pc = "raised", !.req = r, !.exc = "KeyError"]

\* analyze, lines 45-59: content within the small-context limit
AnalyzeSmall(r) ==
    [NewCaller EXCEPT !.pc = "returned", !.req = r, !.writes = 1,
                      !.result = AnalysisResult(r, 0, FALSE, None)]

\* analyze, lines 61-76 and _process_chunks_with_gemini, lines 124-155: up
\* to the first await
AnalyzeLarge(r) ==
    LET n == Len(ChunksOf(r))
    IN  IF n = 1
        THEN [NewCaller EXCEPT !.pc = "single", !.req = r, !.n = n,
                               !.call = "run", !.gw_calls = 1]
        ELSE [NewCaller EXCEPT !.pc = "gather", !.req = r, !.n = n,
                               !.tasks = [k \in 1..n |-> "run"],
                               !.gw_calls = n]

\* a call of analyze(r) by c, up to its first await.  The clock may advance
\* by lag between the membership test and the read of the entry.
Call(c, r, lag) ==
    /\ an[c].pc \in {"idle", "returned", "raised"}
    /\ ncalls < MaxCalls
    /\ now + lag <= MaxTime
    /\ ncalls' = ncalls + 1
    /\ LET key == GenerateCacheKey(r)
           ghost == [expected |-> IF HasLink(cache, key)
                                     /\ now + lag < LinkOf(cache, key).stored + CacheTtlSeconds
                                  THEN LinkOf(cache, key).value ELSE NoResult,
                     stale |-> HasLink(cache, key)
                               /\ now - LinkOf(cache, key).stored > CacheTtlSeconds]
       IN  IF CacheContains(cache, key, now)
           THEN /\ now' = now + lag
                /\ admitted' = IF lag = 0 THEN admitted ELSE NoneAdmitted
                /\ cache' = CacheTouch(cache, key)
                /\ an' = [an EXCEPT ![c] =
                            [Lookup(c, r, key, now + lag) EXCEPT
                                !.expected = ghost.expected, !.stale = ghost.stale]]
           ELSE /\ lag = 0
                /\ UNCHANGED <<now, admitted>>
                /\ IF ~NeedsLargeContextProcessing(r.content)
                   THEN /\ cache' = CachePut(cache, key, AnalysisResult(r, 0, FALSE, None), now)
                        /\ an' = [an EXCEPT ![c] =
                                    [AnalyzeSmall(r) EXCEPT
                                        !.expected = ghost.expected, !.stale = ghost.stale,
                                        !.evicted = Cardinality(Evicted(cache, key,
                                                        AnalysisResult(r, 0, FALSE, None), now))]]
                   ELSE /\ cache' = cache
                        /\ an' = [an EXCEPT ![c] =
                                    [AnalyzeLarge(r) EXCEPT
                                        !.expected = ghost.expected, !.stale = ghost.stale]]
    /\ UNCHANGED <<chunkerVars, toolVars, settingsVars, rate_limit_state, lock, waiters, gw, detached>>

\* _process_chunks_with_gemini, lines 136-137: the gateway call of the only
\* chunk ends
SingleEnd(c, outcome) ==
    /\ an[c].pc = "single"
    /\ IF Propagates(outcome)
       THEN an' = [an EXCEPT ![c].pc = "raised", ![c].exc = "ClientError",
                             ![c].call = outcome]
            /\ cache' = cache
       ELSE LET res == AnalysisResult(an[c].req, an[c].n, TRUE,
                                      ResponseOr(outcome, Response("answer", <<>>)))
            IN  /\ cache' = CachePut(cache, GenerateCacheKey(an[c].req), res, now)
                /\ an' = [an EXCEPT ![c].pc = "returned", ![c].result = res,
                                    ![c].call = outcome, ![c].writes = @ + 1,
                                    ![c].evicted = Cardinality(Evicted(cache,
                                                    GenerateCacheKey(an[c].req), res, now))]
    /\ UNCHANGED <<chunkerVars, toolVars, settingsVars, now, gatewayVars, detached, ncalls>>

\* the gateway call of chunk k ends
TaskEnd(c, k, outcome) ==
    /\ an[c].pc = "gather"
    /\ k \in 1..an[c].n
    /\ an[c].tasks[k] = "run"
    /\ an' = [an EXCEPT ![c].tasks[k] = outcome, ![c].order = Append(@, k)]
    /\ UNCHANGED <<chunkerVars, toolVars, settingsVars, now, gatewayVars, cache, detached, ncalls>>

\* lines 155-168: gather returns the responses of all chunks, the findings
\* are aggregated and the synthesis call is made
GatherDone(c) ==
    /\ an[c].pc = "gather"
    /\ AllDone(an[c].tasks)
    /\ \A k \in 1..an[c].n : ~Propagates(an[c].tasks[k])
    /\ an' = [an EXCEPT ![c].pc = "synth",
                        ![c].findings = FindingsOf(an[c].tasks),
                        ![c].call = "run",
                        ![c].synth_calls = @ + 1,
                        ![c].gw_calls = @ + 1]
    /\ UNCHANGED <<chunkerVars, toolVars, settingsVars, now, gatewayVars, cache, detached, ncalls>>

\* line 155: gather raises the first ClientError of a chunk call; the
\* calls of the other chunks are not cancelled
GatherRaise(c) ==
    /\ an[c].pc = "gather"
    /\ \E k \in 1..an[c].n : Propagates(an[c].tasks[k])
    /\ an' = [an EXCEPT ![c].pc = "raised", ![c].exc = "ClientError"]
    /\ detached' = detached + Cardinality({k \in 1..an[c].n : an[c].tasks[k] = "run"})
    /\ UNCHANGED <<chunkerVars, toolVars, settingsVars, now, gatewayVars, cache, ncalls>>

\* lines 168-169: the synthesis call ends
SynthEnd(c, outcome) ==
    /\ an[c].pc = "synth"
    /\ IF Propagates(outcome)
       THEN an' = [an EXCEPT ![c].pc = "raised", ![c].exc = "ClientError",
                             ![c].call = outcome]
            /\ cache' = cache
       ELSE LET res == AnalysisResult(an[c].req, an[c].n, TRUE,
                                      ResponseOr(outcome, Response("synthesis", an[c].findings)))
            IN  /\ cache' = CachePut(cache, GenerateCacheKey(an[c].req), res, now)
                /\ an' = [an EXCEPT ![c].pc = "returned", ![c].result = res,
                                    ![c].call = outcome, ![c].writes = @ + 1,
                                    ![c].evicted = Cardinality(Evicted(cache,
                                                    GenerateCacheKey(an[c].req), res, now))]
    /\ UNCHANGED <<chunkerVars, toolVars, settingsVars, now, gatewayVars, detached, ncalls>>

\* a gateway call left behind by an analyze call that raised ends
DetachedEnd ==
    /\ detached > 0
    /\ detached' = detached - 1
    /\ UNCHANGED <<chunkerVars, toolVars, settingsVars, now, gatewayVars, cache, an, ncalls>>

(***************************************************************************)
(* The summarize_project tool (tools/summarize_project_tool.py).  pc of an *)
(* invocation:                                                             *)
(*   idle      not invoked yet                                             *)
(*   collect   awaiting file_collector.collect_files                       *)
(*   analyze   awaiting analyzer.analyze, its gateway calls in flight      *)
(*   returned  the tool returned a dictionary (status, error)              *)
(*   raised    an exception left the tool                                  *)
(***************************************************************************)
NInvocations == 2       \* invocations of the tool in one behaviour

Invocations == 1..NInvocations

\* directory_path: a path that does not exist, a path of a regular file,
\* and directories with no matching file, with one empty file and with
\* two source files
Paths == {"missing", "file", "empty", "small", "large"}

\* the content of the files collect_files returns for a directory
FilesOf(path) ==
    IF path = "small" THEN << <<>> >>
    ELSE IF path = "large" THEN << <<"x", "x">>, <<"d">> >>
    ELSE <<>>

\* _combine_file_contents: the project header, then every file, joined by
\* newlines (a header is one word here)
CombineFileContents(files) == Join(<< <<"x">> >> \o files)

\* the AnalysisRequest of lines 117-125: no filename in the metadata, so
\* analyze chunks it as 'content.txt'
ToolRequest(files) == Request("q", CombineFileContents(files), "code_aware", ".txt")

\* LargeContextAnalyzer(), line 70: the cache of a new analyzer
NewAnalyzerCache == <<>>

NewInvocation ==
    [pc |-> "idle", path |-> "none", cache |-> <<>>, req |-> NoRequest,
     n |-> 0, analyze_calls |-> 0, gw_calls |-> 0, hit |-> FALSE,
     expected |-> FALSE, exc |-> "none", status |-> "none", error |-> "none",
     analysis |-> NoResult]

ToolIdle == tool = [i \in Invocations |-> NewInvocation]

\* a tool that takes an empty collection for files to analyze
NoFilesNever(files) == FALSE

\* line 83: if not collected_files
NoFiles(files) == files = <<>>

\* a handler that lets client errors through
CatchesAllButClientError(exc) == exc # "ClientError"

\* line 157: except Exception
Catches(exc) == exc \in {"ValueError", "ClientError", "KeyError"}

\* return {'error': ..., 'status': 'failed'}
Failed(inv, error) ==
    [inv EXCEPT !.pc = "returned", !.status = "failed", !.error = error]

\* lines 131-155: return {'status': 'success', ...}
Success(inv, result) ==
    [inv EXCEPT !.pc = "returned", !.status = "success", !.analysis = result]

\* lines 157-162: an exception raised inside the try block
Handle(inv, exc) ==
    IF Catches(exc)
    THEN Failed([inv EXCEPT !.exc = exc], "Failed to summarize project")
    ELSE [inv EXCEPT !.pc = "raised", !.exc = exc]

\* summarize_project, lines 51-81: up to the await of collect_files
ToolStart(i, path) ==
    /\ tool[i].pc = "idle"
    /\ LET inv == [tool[i] EXCEPT !.path = path]
       IN  tool' = [tool EXCEPT ![i] =
                IF path = "missing" THEN Failed(inv, "Directory not found")
                ELSE IF path = "file" THEN Failed(inv, "Path is not a directory")
                ELSE [inv EXCEPT !.pc = "collect", !.cache = NewAnalyzerCache]]
    /\ UNCHANGED <<chunkerVars, settingsVars, now, gatewayVars, analyzerVars>>

\* analyzer.analyze(analysis_request) on the analyzer of the invocation, up
\* to its first await
ToolAnalyze(inv, r) ==
    LET key == GenerateCacheKey(r)
        called == [inv EXCEPT !.req = r, !.analyze_calls = @ + 1]
        small == AnalysisResult(r, 0, FALSE, None)
    IN  IF CacheContains(inv.cache, key, now)
        THEN Success([called EXCEPT !.hit = TRUE, !.cache = CacheTouch(@, key)],
                     LinkOf(inv.cache, key).value)
        ELSE IF ~NeedsLargeContextProcessing(r.content)
        THEN Success([called EXCEPT !.cache = CachePut(@, key, small, now)], small)
        ELSE [called EXCEPT !.pc = "analyze", !.n = Len(ChunksOf(r)),
                            !.gw_calls = Len(ChunksOf(r))]

\* lines 81-129: collect_files returns or raises exc; with files the
\* request is built and analyze is called
ToolCollected(i, exc) ==
    /\ tool[i].pc = "collect"
    /\ LET files == FilesOf(tool[i].path)
           r == ToolRequest(files)
           stored == \E j \in Invocations :
                        /\ tool[j].pc = "returned" /\ tool[j].status = "success"
                        /\ GenerateCacheKey(tool[j].req) = GenerateCacheKey(r)
       IN  tool' = [tool EXCEPT ![i] =
                IF exc # "none" THEN Handle(tool[i], exc)
                ELSE IF NoFiles(files)
                THEN Failed(tool[i], "No files found matching the specified patterns")
                ELSE ToolAnalyze([tool[i] EXCEPT !.expected = stored], r)]
    /\ UNCHANGED <<chunkerVars, settingsVars, now, gatewayVars, analyzerVars>>

\* lines 129-155: the gateway calls of analyze end; analyze returns its
\* result or raises the client error of a call
ToolAnalyzed(i, outcome) ==
    /\ tool[i].pc = "analyze"
    /\ LET inv == tool[i]
           text == IF inv.n = 1 THEN Response("answer", <<>>)
                   ELSE Response("synthesis", [k \in 1..inv.n |-> k])
           res == AnalysisResult(inv.req, inv.n, TRUE, ResponseOr(outcome, text))
       IN  tool' = [tool EXCEPT ![i] =
                IF Propagates(outcome)
                THEN Handle(inv, "ClientError")
                ELSE Success([inv EXCEPT
                                 !.gw_calls = @ + (IF inv.n >= 2 THEN 1 ELSE 0),
                                 !.cache = CachePut(@, GenerateCacheKey(inv.req), res, now)],
                             res)]
    /\ UNCHANGED <<chunkerVars, settingsVars, now, gatewayVars, analyzerVars>>

(***************************************************************************)
(* The result cache under the eviction_policy setting: analyze calls made  *)
(* one after the other, every gateway call answering.                      *)
(***************************************************************************)
MaxCacheOps == 4        \* analyze calls in one behaviour of the cache

\* settings.py, line 43: Literal['lru', 'lfu', 'fifo']
EvictionPolicies == {"lru", "lfu", "fifo"}

CacheKeys == {GenerateCacheKey(r) : r \in Requests}

\* history of the cache: the resident keys in insertion order and in order
\* of last use, the number of uses of each key since it was inserted, the
\* keys the last store evicted and those the policy names for eviction
NewEviction(policy) ==
    [policy |-> policy, inserted |-> <<>>, recent |-> <<>>,
     uses |-> [k \in CacheKeys |-> 0], victims |-> {}, expected |-> {}, ops |-> 0]

\* line 43: the default policy
EvictionIdle == eviction = NewEviction("lru")

KeysOf(seq) == {seq[i] : i \in 1..Len(seq)}

\* the entries the policy names for eviction: the least recently used one,
\* the least frequently used ones, the earliest inserted one
ExpectedVictims(policy, inserted, recent, uses) ==
    IF inserted = <<>> THEN {}
    ELSE IF policy = "lru" THEN {recent[1]}
    ELSE IF policy = "fifo" THEN {inserted[1]}
    ELSE {k \in KeysOf(inserted) : \A j \in KeysOf(inserted) : uses[k] <= uses[j]}

\* _process_chunks_with_gemini when every gateway call answers
AnswerOf(r) ==
    LET n == Len(ChunksOf(r))
    IN  IF ~NeedsLargeContextProcessing(r.content)
        THEN AnalysisResult(r, 0, FALSE, None)
        ELSE AnalysisResult(r, n, TRUE,
                 IF n = 1 THEN Response("answer", <<>>)
                 ELSE Response("synthesis", FindingsOf([k \in 1..n |-> "text"])))

\* analyze(r) by c from its call to its return, no other analyze call
\* running meanwhile and every gateway call answering: a hit reads the
\* entry (lines 41-43), a miss stores the result (lines 58 and 87)
AnalyzeAlone(c, r) ==
    /\ \A d \in Callers : an[d].pc \in {"idle", "returned", "raised"}
    /\ eviction.ops < MaxCacheOps
    /\ LET key == GenerateCacheKey(r)
           live == CacheExpire(cache, now)
           resident == {live[i].key : i \in 1..Len(live)}
           inserted == SelectSeq(eviction.inserted, LAMBDA k : k \in resident)
           recent == SelectSeq(eviction.recent, LAMBDA k : k \in resident)
       IN  IF CacheContains(cache, key, now)
           THEN /\ cache' = CacheTouch(cache, key)
                /\ an' = [an EXCEPT ![c] = Lookup(c, r, key, now)]
                /\ eviction' = [eviction EXCEPT
                       !.recent = Append(SelectSeq(eviction.recent, LAMBDA k : k # key), key),
                       !.uses[key] = @ + 1,
                       !.victims = {}, !.expected = {},
                       !.ops = @ + 1]
           ELSE LET victims == Evicted(cache, key, AnswerOf(r), now)
                    keep(k) == k \notin victims /\ k # key
                IN  /\ cache' = CachePut(cache, key, AnswerOf(r), now)
                    /\ an' = [an EXCEPT ![c] =
                                [NewCaller EXCEPT !.pc = "returned", !.req = r,
                                                  !.result = AnswerOf(r), !.writes = 1,
                                                  !.evicted = Cardinality(victims)]]
                    /\ eviction' = [eviction EXCEPT
                           !.inserted = Append(SelectSeq(inserted, keep), key),
                           !.recent = Append(SelectSeq(recent, keep), key),
                           !.uses[key] = 1,
                           !.victims = victims,
                           !.expected = IF Len(live) + 1 > CacheMaxSize
                                        THEN ExpectedVictims(eviction.policy, inserted,
                                                             recent, eviction.uses)
                                        ELSE {},
                           !.ops = @ + 1]
    /\ UNCHANGED <<chunkerVars, toolVars, now, gatewayVars, detached, ncalls>>

(***************************************************************************)
(* One analyze call together with its gateway calls: the call of chunk k   *)
(* is run by task k, the synthesis call by task 1 once it is free again.   *)
(* pc "off" is a task that has no gateway call to make yet.                *)
(***************************************************************************)
\* the clock advances at its horizon: every time stamp is kept relative to
\* the present time, and a time stamp further back than any comparison
\* looks is kept at that distance
Rebase ==
    /\ now = MaxTime
    /\ now' = now
    /\ rate_limit_state' =
           [rate_limit_state EXCEPT !.window_start = Max(@ - 1, now - RateLimitWindow)]
    /\ gw' = [t \in Tasks |-> [gw[t] EXCEPT !.wake = Max(@ - 1, 0)]]
    /\ admitted' = [k \in 1..RateLimitWindow |->
                        IF k = 1 THEN 0 ELSE admitted[k - 1]]
    /\ cache' = [i \in 1..Len(cache) |->
                    [cache[i] EXCEPT !.expires = Max(@ - 1, 0),
                                     !.stored = Max(@ - 1, 0)]]
    /\ UNCHANGED <<chunkerVars, toolVars, settingsVars, lock, waiters, an, detached, ncalls>>

\* what the awaiting analyze call gets from a gateway call that has ended
OutcomeOf(call) == IF call.pc = "raised" THEN "client_error" ELSE call.result

Ended(call) == call.pc \in {"returned", "raised"}

\* the analyze call is made
LiveCall(r) ==
    /\ an[1].pc = "idle"
    /\ Call(1, r, 0)

\* lines 136 and 153-155: the gateway call of chunk k starts
LiveSend(k) ==
    /\ an[1].pc \in {"single", "gather"}
    /\ k \in 1..an[1].n
    /\ gw[k].pc = "off"
    /\ gw' = [gw EXCEPT ![k] = NewCall("single")]
    /\ UNCHANGED <<chunkerVars, toolVars, settingsVars, analyzerVars, now,
                   rate_limit_state, lock, waiters, admitted>>

\* lines 136-137: the gateway call of the only chunk has ended
LiveSingleEnd ==
    /\ Ended(gw[1])
    /\ SingleEnd(1, OutcomeOf(gw[1]))

\* line 155: the gateway call of chunk k has ended
LiveTaskEnd(k) ==
    /\ k \in Tasks
    /\ Ended(gw[k])
    /\ TaskEnd(1, k, OutcomeOf(gw[k]))

\* line 168: the synthesis call starts
LiveSynthStart ==
    /\ an[1].pc = "synth" /\ an[1].call = "run"
    /\ Ended(gw[1])
    /\ gw' = [gw EXCEPT ![1] = NewCall("single")]
    /\ an' = [an EXCEPT ![1].call = "sent"]
    /\ UNCHANGED <<chunkerVars, toolVars, settingsVars, now, rate_limit_state, lock,
                   waiters, admitted, cache, detached, ncalls>>

\* lines 168-169: the synthesis call has ended
LiveSynthEnd ==
    /\ an[1].call = "sent"
    /\ Ended(gw[1])
    /\ SynthEnd(1, OutcomeOf(gw[1]))

(***************************************************************************)
(* Specifications.                                                         *)
(***************************************************************************)
InitChunker ==
    /\ content \in Texts(MaxLen)
    /\ filename \in Extensions
    /\ chunk_size \in 1..MaxChunkSize
    /\ overlap_size \in 0..MaxOverlap
    /\ chunks = <<>>
    /\ chunker = "input"
    /\ boundaries = NoBoundaries
    /\ cuts = <<>>
    /\ now = 0
    /\ GatewayIdle
    /\ AnalyzerIdle
    /\ ToolIdle
    /\ EvictionIdle

NextChunker ==
    \/ CallSmartChunk
    \/ CallSimpleChunk
    \/ \E language \in Languages : CallFindCodeBoundaries(language)

SpecChunker == InitChunker /\ [][NextChunker]_vars

InitGateway ==
    /\ ChunkerIdle
    /\ now = 0
    /\ rate_limit_state = [request_count |-> 0, window_start |-> 0, since_start |-> 0]
    /\ lock = NoTask
    /\ waiters = <<>>
    /\ \E kind \in {"single", "stream"} :
           gw = [t \in Tasks |-> NewCall(IF t < NTasks THEN "single" ELSE kind)]
    /\ admitted = NoneAdmitted
    /\ AnalyzerIdle
    /\ ToolIdle
    /\ EvictionIdle

NextGateway ==
    \/ Tick
    \/ \E t \in Tasks : Acquire(t)
    \/ \E t \in Tasks : Enqueue(t)
    \/ \E t \in Tasks : Granted(t)
    \/ \E t \in Tasks : RateWake(t)
    \/ \E t \in Tasks, has_text \in BOOLEAN : RemoteReturn(t, has_text)
    \/ \E t \in Tasks, has_text \in BOOLEAN : StreamFragment(t, has_text)
    \/ \E t \in Tasks : StreamEnd(t)
    \/ \E t \in Tasks, e \in {"server", "rate", "client", "other"} : RemoteError(t, e)
    \/ \E t \in Tasks : BackoffWake(t)

SpecGateway == InitGateway /\ [][NextGateway]_vars

Init ==
    /\ ChunkerIdle
    /\ now = 0
    /\ GatewayIdle
    /\ AnalyzerIdle
    /\ ToolIdle
    /\ EvictionIdle

Next ==
    \/ Tick
    \/ \E c \in Callers, r \in Requests, lag \in 0..1 : Call(c, r, lag)
    \/ \E c \in Callers, outcome \in Outcomes : SingleEnd(c, outcome)
    \/ \E c \in Callers : \E k \in 1..an[c].n, outcome \in Outcomes :
           TaskEnd(c, k, outcome)
    \/ \E c \in Callers : GatherDone(c)
    \/ \E c \in Callers : GatherRaise(c)
    \/ \E c \in Callers, outcome \in Outcomes : SynthEnd(c, outcome)
    \/ DetachedEnd

Spec == Init /\ [][Next]_vars

InitTool ==
    /\ ChunkerIdle
    /\ now = 0
    /\ GatewayIdle
    /\ AnalyzerIdle
    /\ ToolIdle
    /\ EvictionIdle

NextTool ==
    \/ \E i \in Invocations, path \in Paths : ToolStart(i, path)
    \/ \E i \in Invocations, exc \in {"none", "ValueError"} : ToolCollected(i, exc)
    \/ \E i \in Invocations, outcome \in Outcomes : ToolAnalyzed(i, outcome)

SpecTool == InitTool /\ [][NextTool]_vars

InitCache ==
    /\ ChunkerIdle
    /\ now = 0
    /\ GatewayIdle
    /\ AnalyzerIdle
    /\ ToolIdle
    /\ \E policy \in EvictionPolicies : eviction = NewEviction(policy)

NextCache ==
    \/ Tick
    \/ \E c \in Callers, r \in Requests : AnalyzeAlone(c, r)

SpecCache == InitCache /\ [][NextCache]_vars

InitLive ==
    /\ ChunkerIdle
    /\ now = 0
    /\ rate_limit_state = [request_count |-> 0, window_start |-> 0, since_start |-> 0]
    /\ lock = NoTask
    /\ waiters = <<>>
    /\ gw = [t \in Tasks |-> [NewCall("single") EXCEPT !.pc = "off"]]
    /\ admitted = NoneAdmitted
    /\ AnalyzerIdle
    /\ ToolIdle
    /\ EvictionIdle

\* the steps of the tasks
StepLive ==
    \/ \E r \in Requests : LiveCall(r)
    \/ \E k \in Tasks : LiveSend(k)
    \/ \E t \in Tasks : Acquire(t)
    \/ \E t \in Tasks : Enqueue(t)
    \/ \E t \in Tasks : Granted(t)
    \/ \E t \in Tasks : RateWake(t)
    \/ \E t \in Tasks, has_text \in BOOLEAN : RemoteReturn(t, has_text)
    \/ \E t \in Tasks, e \in {"server", "rate", "client", "other"} : RemoteError(t, e)
    \/ \E t \in Tasks : BackoffWake(t)
    \/ LiveSingleEnd
    \/ \E k \in Tasks : LiveTaskEnd(k)
    \/ GatherDone(1)
    \/ GatherRaise(1)
    \/ LiveSynthStart
    \/ LiveSynthEnd

\* the passing of time
TimeLive == Tick \/ Rebase

NextLive == StepLive \/ TimeLive

\* time passes, and a task that can take a step is not held up for ever:
\* the event loop runs the ready tasks, remote calls and sleeps end
SpecLive == InitLive /\ [][NextLive]_vars /\ WF_vars(TimeLive) /\ WF_vars(StepLive)

----
Lines == Split(content)

ChunkLines(c) == c.start_line..c.end_line

\* C1: every chunk returned by smart_chunk_content has a token count within
\* the chunk budget, or is exactly one line whose own token count exceeds
\* the budget.
C1_Budget ==
    chunker = "smart" =>
        \A k \in 1..Len(chunks) :
            \/ CountTokens(chunks[k].text) <= chunk_size
            \/ /\ Len(Split(chunks[k].text)) = 1
               /\ CountTokens(chunks[k].text) > chunk_size

\* C2: the line ranges of the chunks returned by smart_chunk_content cover
\* every line index of the content.
C2_Coverage ==
    chunker = "smart" =>
        \A i \in 0..(Len(Lines) - 1) :
            \E k \in 1..Len(chunks) : i \in ChunkLines(chunks[k])

\* C2 witness: the content was cut, the second chunk steps back into the
\* first, and the ranges cover all lines
C2_Witness ==
    /\ chunker = "smart"
    /\ Len(chunks) >= 3
    /\ Len(Lines) >= 3
    /\ chunks[2].start_line <= chunks[1].end_line
    /\ \A i \in 0..(Len(Lines) - 1) :
           \E k \in 1..Len(chunks) : i \in ChunkLines(chunks[k])

RECURSIVE SumSeq(_)
SumSeq(q) == IF q = <<>> THEN 0 ELSE Head(q) + SumSeq(Tail(q))

\* calls let through in the interval of length RateLimitWindow that ends now
AdmittedInWindow == SumSeq(admitted)

\* C5: across any interval of length RateLimitWindow, the rate limiter lets
\* through at most the request limit plus the one call that triggered the
\* block.
C5_SlidingLimit == AdmittedInWindow <= RateLimitRequests + 1

\* C5 as amended: across any interval of length RateLimitWindow, the rate
\* limiter lets through at most twice the request limit.
C5_SlidingTwiceLimit == AdmittedInWindow <= 2 * RateLimitRequests

\* C5 witness: a full window followed at once by a full window
C5_Witness ==
    /\ AdmittedInWindow = 2 * RateLimitRequests
    /\ AdmittedInWindow > RateLimitRequests + 1
    /\ rate_limit_state.window_start = now
    /\ rate_limit_state.request_count = RateLimitRequests

\* C7: a client error of the remote call makes the gateway call raise at
\* once, on whatever attempt: no remote attempt follows, no backoff sleep
\* is made for it, and the call has no result.
C7_ClientErrorPropagates ==
    \A t \in Tasks :
        gw[t].error = "client" =>
            /\ gw[t].pc = "raised"
            /\ gw[t].result = "none"
            /\ gw[t].slept = NoSleep
            /\ gw[t].calls = gw[t].attempt + 1
            /\ gw[t].sleeps = gw[t].attempt

\* C7 witness: a single-shot call raised on a retry, and a streaming call
\* raised after fragments were yielded
C7_Witness ==
    /\ \E t \in Tasks :
           /\ gw[t].kind = "single" /\ gw[t].pc = "raised"
           /\ gw[t].error = "client" /\ gw[t].attempt >= 1
    /\ \E t \in Tasks :
           /\ gw[t].kind = "stream" /\ gw[t].pc = "raised"
           /\ gw[t].error = "client" /\ gw[t].delivered # <<>>

Transient == {"server", "rate", "other"}

\* C8: a single-shot gateway call makes at most max_retries remote attempts,
\* and when all of them failed with transient errors it returns an absent
\* result and does not raise.
C8_BoundedRetries ==
    \A t \in Tasks :
        gw[t].kind = "single" =>
            /\ gw[t].calls <= MaxRetries
            /\ gw[t].attempt <= MaxRetries
            /\ gw[t].attempt = MaxRetries =>
                   /\ gw[t].pc = "returned"
                   /\ gw[t].result = "absent"
                   /\ gw[t].error \in Transient
            /\ gw[t].error \in Transient => gw[t].pc # "raised"

\* C8 witness: a call returned absent after max_retries failed attempts
C8_Witness ==
    \E t \in Tasks :
        /\ gw[t].kind = "single" /\ gw[t].pc = "returned"
        /\ gw[t].calls = MaxRetries /\ gw[t].attempt = MaxRetries
        /\ gw[t].result = "absent"

Small(r) == CountTokens(r.content) <= ClaudeMaxTokens

Done(c) == \A k \in 1..an[c].n : an[c].tasks[k] \in {"text", "absent"}

Answered(c) == {k \in 1..an[c].n : an[c].tasks[k] = "text"}

\* C6: when the content has n >= 2 chunks and every chunk call ended with
\* a text or absent, exactly one synthesis call is made, its findings are
\* those of the chunks that answered, and unless the synthesis call raises
\* a client error analyze returns a result with chunks_processed = n.
C6_PartialFailure ==
    \A c \in Callers :
        (an[c].n >= 2 /\ Done(c) /\ an[c].pc # "gather") =>
            /\ an[c].synth_calls = 1
            /\ an[c].gw_calls = an[c].n + 1
            /\ Len(an[c].findings) = Cardinality(Answered(c))
            /\ \A i \in 1..Len(an[c].findings) : an[c].findings[i] \in Answered(c)
            /\ an[c].pc \in {"synth", "returned", "raised"}
            /\ an[c].pc = "returned" => an[c].result.chunks_processed = an[c].n
            /\ an[c].pc = "raised" => an[c].call = "client_error"

\* C6 witness: one analysis returned after all its chunk calls failed,
\* another after only its first chunk call failed
C6_Witness ==
    /\ an[1].pc = "returned" /\ an[1].n >= 2
    /\ \A k \in 1..an[1].n : an[1].tasks[k] = "absent"
    /\ an[1].findings = <<>> /\ an[1].synth_calls = 1
    /\ an[2].pc = "returned" /\ an[2].n >= 2
    /\ an[2].tasks[1] = "absent" /\ an[2].tasks[2] = "text"
    /\ an[2].findings = <<2>> /\ an[2].result.chunks_processed = an[2].n

ClientErrorSeen(c) ==
    \/ an[c].call = "client_error"
    \/ \E k \in DOMAIN an[c].tasks : an[c].tasks[k] = "client_error"

\* C9: once a gateway call of an analyze call has raised a client error,
\* the analyze call raises it and stores nothing in the cache.
C9_ClientErrorNotCached ==
    \A c \in Callers :
        ClientErrorSeen(c) =>
            /\ an[c].pc \in {"gather", "raised"}
            /\ an[c].pc = "raised" => an[c].exc = "ClientError"
            /\ an[c].result = NoResult
            /\ an[c].writes = 0

\* C9 witness: analyze raised the client error of a chunk call and the
\* cache holds nothing
C9_Witness ==
    \E c \in Callers :
        /\ an[c].pc = "raised" /\ an[c].exc = "ClientError"
        /\ \E k \in DOMAIN an[c].tasks : an[c].tasks[k] = "client_error"
        /\ cache = <<>>

\* C10: an analyze call made more than the time-to-live after the entry of
\* its fingerprint was written is not a hit: it recomputes the result.
C10_NoStaleHit ==
    \A c \in Callers :
        an[c].stale =>
            /\ ~an[c].hit
            /\ an[c].exc # "KeyError"
            /\ an[c].pc = "returned" => an[c].writes = 1

\* C10 witness: a call found an entry older than the time-to-live and
\* returned a recomputed result
C10_Witness ==
    \E c \in Callers :
        /\ an[c].stale /\ an[c].pc = "returned" /\ an[c].writes = 1
        /\ an[c].result.used_gemini

\* C11: the result cache never holds more entries than cache_max_size, and
\* a store into a full cache removes one unexpired entry to make room.
C11_CacheBounded ==
    /\ Len(cache) <= CacheMaxSize
    /\ \A i, j \in 1..Len(cache) : cache[i].key = cache[j].key => i = j
    /\ \A c \in Callers : an[c].evicted <= 1

\* C11 witness: a store into a full cache evicted an entry and the cache
\* is full again
C11_Witness ==
    /\ Len(cache) = CacheMaxSize
    /\ \E c \in Callers :
           /\ an[c].pc = "returned" /\ an[c].evicted = 1
           /\ HasLink(cache, GenerateCacheKey(an[c].req))

\* C12: the findings of the synthesis prompt are labelled with the
\* document-order index of their chunk, in ascending order, whatever order
\* the chunk calls ended in: part k is there exactly when chunk k answered.
C12_PartLabels ==
    \A c \in Callers :
        an[c].synth_calls > 0 =>
            /\ \A i, j \in 1..Len(an[c].findings) :
                   i < j => an[c].findings[i] < an[c].findings[j]
            /\ \A k \in 1..an[c].n :
                   (an[c].tasks[k] = "text") <=>
                       (\E i \in 1..Len(an[c].findings) : an[c].findings[i] = k)

\* C12 witness: the calls ended in reverse document order, once with both
\* chunks answered and once with the first chunk omitted
C12_Witness ==
    /\ an[1].synth_calls = 1 /\ an[1].order = <<2, 1>>
    /\ an[1].findings = <<1, 2>>
    /\ an[2].synth_calls = 1 /\ an[2].order = <<2, 1>>
    /\ an[2].tasks[1] = "absent" /\ an[2].findings = <<2>>

\* C13: the synthesis call is made only when no chunk call of the analysis
\* is in flight: every chunk call has ended with a text or absent.
C13_SynthesisAfterAll ==
    \A c \in Callers :
        (an[c].pc = "synth" \/ an[c].synth_calls > 0) =>
            /\ \A k \in 1..an[c].n : an[c].tasks[k] \in {"text", "absent"}
            /\ Len(an[c].order) = an[c].n

\* C13 witness: the synthesis call is in flight after two chunk calls ended
C13_Witness ==
    \E c \in Callers :
        /\ an[c].pc = "synth" /\ an[c].n >= 2
        /\ Len(an[c].order) = an[c].n

\* C14: at most one task at a time is inside the check-and-update of the
\* rate limit state, its sleep included, and a task whose remote call is in
\* flight does not hold the lock.
C14_LockDiscipline ==
    /\ Cardinality({t \in Tasks : gw[t].pc = "rate_sleep"}) <= 1
    /\ \A t \in Tasks : (lock = t) <=> (gw[t].pc = "rate_sleep")
    /\ \A t \in Tasks : gw[t].pc = "remote" => lock # t
    /\ \A t \in Tasks :
           (gw[t].pc = "wait_lock") <=> (\E i \in 1..Len(waiters) : waiters[i] = t)

\* C14 witness: the remote calls of two tasks are in flight together and
\* the lock is free
C14_Witness ==
    /\ \A t \in Tasks : gw[t].pc = "remote" /\ gw[t].kind = "single"
    /\ lock = NoTask
    /\ rate_limit_state.request_count = NTasks

AllParts(n) == [k \in 1..n |-> k]

Running(c) == an[c].pc \in {"single", "gather", "synth"}

\* C19: the inference pipeline runs at most once for a fingerprint while
\* its result stays cached, also when two analyze calls of the fingerprint
\* overlap: no two calls of one fingerprint are in the pipeline together,
\* and a call that finds an unexpired entry makes no gateway call.
C19_OncePerFingerprint ==
    /\ \A c1, c2 \in Callers :
           (c1 # c2 /\ Running(c1) /\ Running(c2)) =>
               GenerateCacheKey(an[c1].req) # GenerateCacheKey(an[c2].req)
    /\ \A c \in Callers : an[c].expected # NoResult => an[c].gw_calls = 0

\* C20: the backoff sleep after a transient failure on attempt k that is
\* followed by another attempt is initial_delay * 2^k, with jitter only
\* for rate-limit errors, for every transient error class.
C20_ExponentialBackoff ==
    \A t \in Tasks :
        (gw[t].error \in Transient /\ gw[t].attempt < MaxRetries - 1) =>
            /\ gw[t].pc = "backoff"
            /\ gw[t].slept.base = InitialRetryDelay * Pow2(gw[t].attempt)
            /\ gw[t].slept.jitter <=> (gw[t].error = "rate")

\* C15: a path that does not exist gives status 'failed' with the error
\* 'Directory not found', a directory with no collected file gives status
\* 'failed' with the error 'No files found'; in neither case is analyze
\* called or a gateway call made.
C15_InputErrors ==
    \A i \in Invocations :
        /\ (tool[i].path = "missing" /\ tool[i].pc # "idle") =>
               /\ tool[i].pc = "returned" /\ tool[i].status = "failed"
               /\ tool[i].error = "Directory not found"
               /\ tool[i].analyze_calls = 0 /\ tool[i].gw_calls = 0
        /\ (tool[i].path = "empty" /\ tool[i].pc = "returned" /\ tool[i].exc = "none") =>
               /\ tool[i].status = "failed"
               /\ tool[i].error = "No files found matching the specified patterns"
               /\ tool[i].analyze_calls = 0 /\ tool[i].gw_calls = 0

\* C15 witness: one invocation failed on a missing path, another on a
\* directory without files
C15_Witness ==
    /\ tool[1].path = "missing" /\ tool[1].status = "failed"
    /\ tool[2].path = "empty" /\ tool[2].status = "failed" /\ tool[2].exc = "none"

\* C16: the tool never raises: every failure inside it, a collector error
\* and a client error of analyze included, is returned with status 'failed'
\* and an error, and status 'success' is returned only when analyze
\* returned.
C16_NeverRaises ==
    \A i \in Invocations :
        /\ tool[i].pc # "raised"
        /\ tool[i].exc # "none" =>
               /\ tool[i].pc = "returned" /\ tool[i].status = "failed"
               /\ tool[i].error = "Failed to summarize project"
        /\ tool[i].pc = "returned" => tool[i].status \in {"success", "failed"}
        /\ tool[i].status = "failed" => tool[i].error # "none"
        /\ tool[i].status = "success" =>
               /\ tool[i].exc = "none" /\ tool[i].analyze_calls = 1
               /\ tool[i].analysis # NoResult

\* C16 witness: one invocation returned the client error of analyze as a
\* failure, another the error of the file collector
C16_Witness ==
    /\ tool[1].status = "failed" /\ tool[1].exc = "ClientError"
    /\ tool[1].analyze_calls = 1 /\ tool[1].gw_calls > 0
    /\ tool[2].status = "failed" /\ tool[2].exc = "ValueError"

\* C18: a result stored by an analyze call is a cache hit for every later
\* analyze call of the same fingerprint in the process, those of separate
\* invocations of the tool on unchanged content included, which make no
\* gateway call.
C18_SharedCache ==
    \A i \in Invocations :
        (tool[i].expected /\ tool[i].analyze_calls > 0) =>
            /\ tool[i].hit
            /\ tool[i].gw_calls = 0

\* the lines whose own token count exceeds the chunk budget
Oversized == {i \in 0..(Len(Lines) - 1) : CountTokens(Lines[i + 1]) > chunk_size}

\* C21: a line whose own token count exceeds the chunk budget is a chunk of
\* its own in the result of smart_chunk_content: some chunk is that line,
\* whole, and every chunk that contains it starts and ends at its index.
C21_OversizedLineAlone ==
    chunker = "smart" =>
        \A i \in Oversized :
            /\ \E k \in 1..Len(chunks) : i \in ChunkLines(chunks[k])
            /\ \A k \in 1..Len(chunks) :
                   i \in ChunkLines(chunks[k]) =>
                       /\ chunks[k].start_line = i /\ chunks[k].end_line = i
                       /\ chunks[k].text = Lines[i + 1]

\* C22: the chunks returned by smart_chunk_content are in document order
\* and none is empty: start and end lines do not decrease from a chunk to
\* the next, and every chunk has start_line <= end_line.
C22_DocumentOrder ==
    chunker = "smart" =>
        /\ \A k \in 1..Len(chunks) : chunks[k].start_line <= chunks[k].end_line
        /\ \A k \in 1..(Len(chunks) - 1) :
               /\ chunks[k].start_line <= chunks[k + 1].start_line
               /\ chunks[k].end_line <= chunks[k + 1].end_line

\* C23: for a language tag that has no patterns, find_code_boundaries
\* returns the empty sequence, whatever the content.
C23_UnsupportedEmpty ==
    (chunker = "boundaries" /\ boundaries.language \notin {"python", "javascript"}) =>
        boundaries.found = <<>>

\* the lines that start with a python declaration header
PythonHeaders == {i \in 0..(Len(Lines) - 1) : Lines[i + 1] # <<>> /\ Lines[i + 1][1] = "d"}

\* C23 as amended: for a language tag that has no patterns,
\* find_code_boundaries returns the matches of the python patterns: the
\* lines that start with a python declaration header, in ascending order.
C23_UnsupportedPython ==
    (chunker = "boundaries" /\ boundaries.language \notin {"python", "javascript"}) =>
        /\ {boundaries.found[k][1] : k \in 1..Len(boundaries.found)} = PythonHeaders
        /\ Len(boundaries.found) = Cardinality(PythonHeaders)
        /\ \A k \in 1..(Len(boundaries.found) - 1) :
               boundaries.found[k][1] < boundaries.found[k + 1][1]

\* C23 witness: boundaries were found for a language without patterns
C23_Witness ==
    /\ chunker = "boundaries" /\ boundaries.language = "go"
    /\ Len(boundaries.found) >= 2

\* the boundary lines b reported by the boundary finder with s < b <= i
\* such that lines s..b-1 fit the budget
Fitting(s, i) ==
    {b \in {boundaries.found[k][1] : k \in 1..Len(boundaries.found)} :
        /\ s < b /\ b <= i
        /\ CountTokens(Join(SubSeq(Lines, s + 1, b))) <= chunk_size}

\* the cut point the claim prescribes
CutPoint(s, i) ==
    IF Fitting(s, i) = {} THEN i
    ELSE CHOOSE b \in Fitting(s, i) : \A a \in Fitting(s, i) : a <= b

\* C30: when line i overflows the budget of a non-empty chunk that starts
\* at line s, smart_chunk_content cuts at the largest reported boundary b
\* with s < b <= i such that lines s..b-1 fit the budget, or at i when there
\* is none, and the chunk it emits is lines s..b-1 (s..i-1).
C30_LargestFittingBoundary ==
    chunker = "smart" =>
        /\ Len(cuts) <= Len(chunks)
        /\ \A k \in 1..Len(cuts) :
               LET b == CutPoint(cuts[k].start, cuts[k].line)
               IN  /\ cuts[k].end = b - 1
                   /\ chunks[k] = Chunk(Join(SubSeq(Lines, cuts[k].start + 1, b)),
                                         cuts[k].start, b - 1)

\* C30 witness: a cut made with two fitting boundaries to choose from
C30_Witness ==
    /\ chunker = "smart"
    /\ \E k \in 1..Len(cuts) : Cardinality(Fitting(cuts[k].start, cuts[k].line)) >= 2

\* C25: on the large-content path, when the single-chunk call or the
\* synthesis call returns absent, analyze returns normally with
\* used_gemini = true and the placeholder as the response; an exception
\* leaves analyze only for a client error of a remote call (or for the
\* KeyError of a lookup whose entry expires between the membership test
\* and the read).
C25_AbsentIsPlaceholder ==
    \A c \in Callers :
        /\ (an[c].pc # "idle" /\ ~Small(an[c].req) /\ an[c].call = "absent") =>
               /\ an[c].pc = "returned"
               /\ an[c].result.used_gemini
               /\ an[c].result.response = NoResponse
        /\ (an[c].pc = "raised" /\ an[c].exc # "KeyError") =>
               /\ an[c].exc = "ClientError"
               /\ ClientErrorSeen(c)

\* C25 witness: one analysis whose single-chunk call returned absent and
\* one whose synthesis call returned absent have returned the placeholder
C25_Witness ==
    \E c, d \in Callers :
        /\ an[c].pc = "returned" /\ an[c].n = 1 /\ an[c].call = "absent"
        /\ an[c].result.response = NoResponse
        /\ an[d].pc = "returned" /\ an[d].n = 2 /\ an[d].call = "absent"
        /\ an[d].synth_calls = 1
        /\ an[d].result.response = NoResponse

\* C26: request_count never exceeds the request limit, and it is the
\* number of calls admitted since window_start: 1 after a caller that
\* found the limit reached has slept and reset the window.
C26_CountWithinLimit ==
    /\ rate_limit_state.request_count <= RateLimitRequests
    /\ rate_limit_state.request_count = rate_limit_state.since_start

\* C27: a call sleeps in check_rate_limit only if at least the limit of
\* calls were admitted since the current window_start.
C27_SleepOnlyAtLimit ==
    \A t \in Tasks :
        gw[t].pc = "rate_sleep" => rate_limit_state.since_start >= RateLimitRequests

\* C28: between two consecutive resets of window_start, the rate limiter
\* admits at most the request limit of calls, over all tasks.
C28_FixedWindowLimit == rate_limit_state.since_start <= RateLimitRequests

\* C28 witness: the limit of calls was admitted since window_start and a
\* further caller is held back
C28_Witness ==
    /\ rate_limit_state.since_start = RateLimitRequests
    /\ \E t \in Tasks : gw[t].pc = "rate_sleep" /\ gw[t].calls >= 1

\* C24: when a store into the full cache evicts an entry, the entry is the
\* one the configured eviction policy names: the least recently used one
\* under 'lru', a least frequently used one under 'lfu', the earliest
\* inserted one under 'fifo'.
C24_EvictionPolicy ==
    eviction.expected # {} =>
        /\ eviction.victims # {}
        /\ eviction.victims \subseteq eviction.expected

\* C29: with remote calls and sleeps that end and a fair scheduler, every
\* task that calls check_rate_limit gets the lock and releases it, every
\* gateway call returns or raises, and the analyze call returns or raises.
C29_Termination ==
    /\ \A t \in Tasks : (gw[t].pc \in {"start", "wait_lock"}) ~>
                             (gw[t].pc \notin {"start", "wait_lock", "rate_sleep"}
                              /\ lock # t)
    /\ \A t \in Tasks : (lock = t) ~> (lock # t)
    /\ \A t \in Tasks : (gw[t].pc # "off") ~> Ended(gw[t])
    /\ (an[1].pc # "idle") ~> (an[1].pc \in {"returned", "raised"})

\* C29 witness: the analysis of two chunks has returned, every gateway
\* call has ended, and one of them slept in check_rate_limit with the lock
\* held
C29_Witness ==
    /\ an[1].pc = "returned" /\ an[1].n = 2 /\ an[1].synth_calls = 1
    /\ \A t \in Tasks : gw[t].pc # "off" => Ended(gw[t])
    /\ rate_limit_state.request_count > RateLimitRequests

\* C31: after smart_chunk_content emits a chunk ending at line e because
\* line i overflowed, the next chunk starts at max(0, e - overlap_lines),
\* overlap_lines being the overlap budget divided by the token count of
\* line i (1 if that is 0), and holds at first the lines from there up to
\* and including line i; with an overlap budget of 0 it holds line e again.
C31_OverlapRestart ==
    chunker = "smart" =>
        \A k \in 1..Len(cuts) :
            LET i == cuts[k].line
                e == cuts[k].end
                overlap_lines == overlap_size \div Max(1, CountTokens(Lines[i + 1] \o <<NL>>))
            IN  /\ k + 1 <= Len(chunks)
                /\ chunks[k].end_line = e
                /\ cuts[k].next_start = Max(0, e - overlap_lines)
                /\ cuts[k].held = SubSeq(Lines, cuts[k].next_start + 1, i + 1)
                /\ chunks[k + 1].start_line = cuts[k].next_start
                /\ overlap_size = 0 => e \in ChunkLines(chunks[k + 1])

\* C31 witness: a cut at a line of two tokens or more that steps back one
\* line of overlap, not as many lines as the budget has tokens
C31_Witness ==
    /\ chunker = "smart"
    /\ \E k \in 1..Len(cuts) :
           /\ cuts[k].line_tokens >= 2 /\ overlap_size >= 2
           /\ cuts[k].end >= 2
           /\ cuts[k].next_start = cuts[k].end - 1

\* C32: every chunk returned by smart_chunk_content and by
\* _simple_chunk_by_size has 0 <= start_line <= end_line <= number of
\* lines - 1, and its text is the lines start_line..end_line of the content
\* joined by newlines.
C32_ChunkIsItsLines ==
    chunker \in {"smart", "simple"} =>
        \A k \in 1..Len(chunks) :
            /\ 0 <= chunks[k].start_line
            /\ chunks[k].start_line <= chunks[k].end_line
            /\ chunks[k].end_line <= Len(Lines) - 1
            /\ chunks[k].text =
                   Join(SubSeq(Lines, chunks[k].start_line + 1, chunks[k].end_line + 1))

\* C32 witness: a chunker has cut the content and returned a chunk of
\* several lines that does not start at line 0
C32_Witness ==
    /\ chunker \in {"smart", "simple"}
    /\ Len(chunks) >= 2
    /\ \E k \in 1..Len(chunks) :
           /\ 0 < chunks[k].start_line
           /\ chunks[k].start_line < chunks[k].end_line
           /\ chunks[k].text # <<>>

\* the token counts of the lines of a chunk, each with its newline
LineTokens(c) ==
    [j \in 1..(c.end_line - c.start_line + 1) |->
        CountTokens(Lines[c.start_line + j] \o <<NL>>)]

\* C33: the chunks of _simple_chunk_by_size partition the content: the
\* first starts at line 0, each next one at the end_line of the one before
\* plus 1, the last ends at the last line, the texts joined by newlines
\* are the content, and the line tokens of a chunk add up to no more than
\* the budget unless the chunk is a single line.
C33_SimplePartition ==
    chunker = "simple" =>
        /\ Len(chunks) >= 1
        /\ chunks[1].start_line = 0
        /\ \A k \in 1..(Len(chunks) - 1) :
               chunks[k + 1].start_line = chunks[k].end_line + 1
        /\ chunks[Len(chunks)].end_line = Len(Lines) - 1
        /\ Join([k \in 1..Len(chunks) |-> chunks[k].text]) = content
        /\ \A k \in 1..Len(chunks) :
               \/ SumSeq(LineTokens(chunks[k])) <= chunk_size
               \/ chunks[k].start_line = chunks[k].end_line

\* C33 witness: three chunks or more, one of several lines and one a
\* single line above the budget
C33_Witness ==
    /\ chunker = "simple"
    /\ Len(chunks) >= 3
    /\ \E k \in 1..Len(chunks) : chunks[k].start_line < chunks[k].end_line
    /\ \E k \in 1..Len(chunks) :
           /\ chunks[k].start_line = chunks[k].end_line
           /\ SumSeq(LineTokens(chunks[k])) > chunk_size

\* C34: gemini_text_to_text sleeps in backoff only between attempts: after
\* the last permitted attempt has failed it does not sleep again, whatever
\* the class of the transient error.
C34_NoSleepAfterLastAttempt ==
    \A t \in Tasks :
        (gw[t].kind = "single" /\ gw[t].pc = "backoff") =>
            gw[t].attempt < MaxRetries - 1

\* C35: the fragments delivered to the consumer of
\* gemini_text_to_text_stream are a prefix of one response stream: no
\* fragment is delivered a second time by a retry.
C35_StreamNotRestarted ==
    \A t \in Tasks :
        gw[t].kind = "stream" =>
            \A i, j \in 1..Len(gw[t].delivered) :
                i < j => gw[t].delivered[i] < gw[t].delivered[j]

\* C36: when analyze has completed, by returning or by raising, none of
\* the gateway calls of its chunks is still in flight.
C36_NoCallLeftBehind ==
    an[1].pc \in {"returned", "raised"} =>
        \A t \in Tasks : gw[t].pc = "off" \/ Ended(gw[t])

\* C37: the cache lookup at the start of analyze never raises, even when
\* the time to live of the entry elapses between the membership test and
\* the read of the entry.
C37_LookupNeverRaises ==
    \A c \in Callers : ~(an[c].pc = "raised" /\ an[c].exc = "KeyError")
====
